---- MODULE Spec2Model ----
(***************************************************************************)
(* Model of the deer-defense server: the connectionless socket             *)
(* (socket.rs, Server::recv), the receive thread and its frame queue       *)
(* (server.rs, recv_loop), the tick thread (server.rs, run) with its       *)
(* session registry `clients`, `player_ids` and the authoritative          *)
(* EntityManager (entities.rs), and the accumulating Timer (timer.rs).     *)
(* And of the client: Client::connect and Client::recv (socket.rs), its    *)
(* receive thread and Engine::tick with the id translation table           *)
(* (main.rs).  The client keeps time in 50 ms steps.                       *)
(*                                                                         *)
(* Abstractions.  A Duration is a number of 500 ms units.  A Vec2 is one   *)
(* integer coordinate; normalize is the sign, len2 < 1.0 is "equals 0".    *)
(* A SocketAddr is a small integer.  HashMap iteration order is modelled   *)
(* where it decides the result (the purge list); a broadcast lists its     *)
(* recipients in ascending address order.                                  *)
(***************************************************************************)
EXTENDS Integers, Sequences, FiniteSets, TLC

\* ------------------------------------------------------------------ bounds
NumAddrs == 2        \* remote addresses that talk to the server
MaxDt == 6           \* largest frame delta, in 500 ms units
MaxQueue == 1        \* frames waiting in the mpsc channel
MaxGrowth == 2       \* client EntitySpawn datagrams plus loop iterations with dt > 0
MaxSweepGrowth == 3  \* the same budget under SpecSweep
MaxLiveGrowth == 3   \* the same budget under SpecLive
WorldSize == 1       \* WORLD_SIZE of the modelled client world (64 in entities.rs)
MaxBurst == 3        \* datagrams that reach the client within one recv call
MaxTicks == 3        \* calls of Engine::tick
MaxRecvQueue == 2    \* frames waiting in the channel while the receive thread is followed
MaxTotal == 12       \* time a Timer is ticked for between resets

\* ------------------------------------------------------- program constants
TIMEOUT == 6         \* common.rs: Duration::from_secs(3)
PING_INTERVAL == 2   \* server.rs run: Duration::from_secs(1)
HUNTER_INTERVAL == 1 \* server.rs run: Duration::from_millis(500)
NumTrees == 5        \* server.rs make_forest: num_trees
ForestScale == 8     \* server.rs make_forest: scale 8.0
HunterScale == 5     \* server.rs spawn_hunter: scale 5.25 (integer part)
HunterSpeed == 1     \* server.rs spawn_hunter: speed 24.0/s, one cell per unit

\* Client durations, in 50 ms steps.
Fine == 10                 \* 50 ms steps in one 500 ms unit
CLIENT_PING_INTERVAL == 20 \* main.rs Engine::new: Duration::from_secs(1)
PLAYER_POS_INTERVAL == 1   \* main.rs Engine::new: Duration::from_millis(50)
SHOT_COOLDOWN == 5         \* main.rs Engine::new: Duration::from_millis(250)
PlayerScale == 4           \* entities.rs spawn_player: scale 4.0
PlayerSpeed == 1           \* entities.rs spawn_player: speed 12.0/s, one cell per step
ProjectileScale == 6       \* main.rs Engine::tick: scale 6.0
ProjectileSpeed == 2       \* main.rs Engine::tick: speed 30.0/s
DefaultPort == 7777
LEN == 256        \* main.rs main: default_port

Addrs == {100 + i : i \in 1..NumAddrs}
NoAddr == 0          \* (Ipv4Addr::UNSPECIFIED, 0), the `but` of broadcast(None)

\* socket::OpCode and common::OpCode, by wire value
Hello == 0
Port == 1
Ping == 2
Pong == 3
EntitySpawn == 4
EntityUpdate == 5
EntityDestroy == 6

\* ------------------------------------------------------------------ inputs
InUpdateIds == {0, NumTrees - 1, 99}
InDestroyIds == {0, 99}
InSpawnIds == {0, 99}
InSpawns == {[kind |-> "Player", dir |-> 0], [kind |-> "PlayerProjectile", dir |-> 1]}
SpawnPos == {1}
UpdatePos == {2}
SpawnScale == {4}
SpawnSpeed == {1}
TreePos == {2}
HunterSpawns == {1}
DtChoices == {0, 1, MaxDt - 1, MaxDt}

\* Client inputs.
ClientDts == {0, 1, TIMEOUT * Fine}
KeyDirs == {0, 1}
InPorts == {7778}
\* Server ids: the number of a local tile, and the number the local player
\* gets (one past the forest's tiles).
InServerIds == {2, (WorldSize + 1) * (WorldSize + 1)}
Thresholds == {1, 2, TIMEOUT}
Resolutions == {"one", "none", "error"}

\* A datagram as Packet::recv_from returns it, with its source address.
InFrame(op, from, p) == [op |-> op, from |-> from, p |-> p]

VARIABLES
    entities,        \* EntityManager.entities: Vec<(i32, Box<dyn Entity>)>
    entity_counter,  \* EntityManager.entity_counter
    clients,         \* run: HashMap<SocketAddr, Timer>, the accumulator of each
    player_ids,      \* run: HashMap<SocketAddr, i32>
    rx,              \* the mpsc channel from recv_loop to the tick thread
    ping_timer,      \* run: ping_timer.accumulator
    hunter_timer,    \* run: hunter_timer.accumulator
    advances,        \* loop iterations so far that saw time pass (dt > 0)
    dt,              \* run: dt of the current loop iteration
    pc,              \* run: position of the tick thread in its loop body
    aborted,         \* the tick thread has panicked
    recv_alive,      \* the receive thread is still running
    replied,         \* the reply Server::recv sent in the last step, if any
    sent,            \* datagrams sent by the last step, in order
    last,            \* history: what the last step processed
    since_reset,     \* history: time each session has gone without a frame
    evicted_players, \* history: player ids whose session the sweep evicted
    destroyed_sent,  \* history: ids of EntityDestroy frames sent by earlier steps
    c_pc,            \* client: position of the main thread (main, Engine::run)
    c_state,         \* client: state of the session as the program tracks it
    c_remote,        \* client: port of the peer the socket is connected to
    c_out,           \* client: frames the last step sent, in order
    c_recv,          \* client: the last call of Client::recv, its input and outcome
    c_rx,            \* client: Engine.rx_packet, the channel from recv_loop
    c_recv_alive,    \* client: the receive thread is still running
    c_ents,          \* client: the local EntityManager.entities
    c_counter,       \* client: the local EntityManager.entity_counter
    server_to_local_id, \* client: Engine.server_to_local_id
    player_id,       \* client: Engine.player_id
    c_ping_timer,    \* client: Engine.ping_timer.accumulator
    player_pos_timer, \* client: Engine.player_pos_timer.accumulator
    timeout_timer,   \* client: Engine.timeout_timer.accumulator
    shot_cooldown,   \* client: Engine.shot_cooldown.accumulator
    c_ticks,         \* client: calls of Engine::tick so far
    c_hellos,        \* history: Hello frames the client has sent
    c_silent,        \* history: tick time since the client last took a frame
    c_created,       \* history: the local id each EntitySpawn created, by server id
    c_spawned,       \* history: the local ids created by received EntitySpawn frames
    c_keys,          \* client: key events waiting in the channel tx -> Player.rx
    c_poss,          \* client: positions waiting in the channel Player.ptx -> prx
    c_last,          \* history: what the last call of Engine::tick handled
    t_threshold,     \* a Timer on its own: Timer.threshold (0 before Timer::new)
    t_accumulator,   \* a Timer on its own: Timer.accumulator
    t_call,          \* history: the last call of Timer::tick, its input and result
    t_total,         \* history: time ticked since Timer::new or Timer::reset
    t_fired,         \* history: calls that returned true since then
    r_last,          \* history: the last result of Server::recv seen by recv_loop
    w_raw,           \* codec: where the Packet at hand came from, and the bytes received
    w_packet,        \* codec: the Packet at hand
    w_value,         \* codec: the value last converted to a Packet
    w_result         \* codec: the outcome of the last TryFrom<Packet>

server_vars == <<entities, entity_counter, clients, player_ids, rx, ping_timer, hunter_timer,
                 advances, dt, pc, aborted, recv_alive, replied, sent, last, since_reset,
                 evicted_players, destroyed_sent, r_last>>

client_vars == <<c_pc, c_state, c_remote, c_out, c_recv, c_rx, c_recv_alive, c_ents, c_counter,
                 server_to_local_id, player_id, c_ping_timer, player_pos_timer, timeout_timer,
                 shot_cooldown, c_ticks, c_hellos, c_silent, c_created, c_spawned, c_keys,
                 c_poss, c_last>>

timer_vars == <<t_threshold, t_accumulator, t_call, t_total, t_fired>>

codec_vars == <<w_raw, w_packet, w_value, w_result>>

vars == <<server_vars, client_vars, timer_vars, codec_vars>>

\* --------------------------------------------------------------- socket.rs
\* Packet: the opcode and the fields the typed payloads decode to.
Packet(op, id, kind, pos, scale, speed, dir) ==
    [op |-> op, id |-> id, kind |-> kind, pos |-> pos, scale |-> scale,
     speed |-> speed, dir |-> dir]

\* Packet::new(op, NoData)
NoData(op) == Packet(op, 0, "Tile", 0, 0, 0, 0)

Datagrams ==
    {InFrame(op, a, NoData(op)) : op \in {Hello, Port, Ping, Pong}, a \in Addrs}
    \cup {InFrame(EntitySpawn, a, Packet(EntitySpawn, id, s.kind, pos, sc, sp, s.dir)) :
            a \in Addrs, id \in InSpawnIds, s \in InSpawns, pos \in SpawnPos,
            sc \in SpawnScale, sp \in SpawnSpeed}
    \cup {InFrame(EntityUpdate, a, Packet(EntityUpdate, id, "Tile", pos, 0, 0, 0)) :
            a \in Addrs, id \in InUpdateIds, pos \in UpdatePos}
    \cup {InFrame(EntityDestroy, a, Packet(EntityDestroy, id, "Tile", 0, 0, 0, 0)) :
            a \in Addrs, id \in InDestroyIds}

\* ------------------------------------------------------------------ timer.rs
\* Timer::tick firing only once the threshold is exceeded.
TimerTickLate(accumulator, d, threshold) ==
    LET acc == accumulator + d
        ret == acc > threshold
    IN  [accumulator |-> IF ret THEN acc - threshold ELSE acc, fired |-> ret]

\* Timer::tick that drops the time of a tick that did not fire.
TimerTickForgets(accumulator, d, threshold) ==
    LET acc == accumulator + d
        ret == acc >= threshold
    IN  [accumulator |-> IF ret THEN acc - threshold ELSE accumulator, fired |-> ret]

\* Timer::tick that starts again from zero when it fires.
TimerTickZeroes(accumulator, d, threshold) ==
    LET acc == accumulator + d
        ret == acc >= threshold
    IN  [accumulator |-> IF ret THEN 0 ELSE acc, fired |-> ret]

\* Timer::tick: the new accumulator and whether the timer fired.
TimerTick(accumulator, d, threshold) ==
    LET acc == accumulator + d
        ret == acc >= threshold
    IN  [accumulator |-> IF ret THEN acc - threshold ELSE acc, fired |-> ret]

\* Timer::new and Timer::reset both leave a zero accumulator.
TimerNew == 0
TimerReset == 0

\* --------------------------------------------------------------- entities.rs
Sgn(x) == IF x > 0 THEN 1 ELSE IF x < 0 THEN -1 ELSE 0

BaseEntity(pos, scale, speed, dir, kind) ==
    [alive |-> TRUE, pos |-> pos, scale |-> scale, speed |-> speed, dir |-> dir,
     kind |-> kind]

\* The store: the entity list and the counter.
Store(es, counter) == [entities |-> es, entity_counter |-> counter]

\* emplace_entity that forgets to advance the counter.
EmplaceEntityStuck(st, ent) ==
    [st |-> Store(Append(st.entities, [id |-> st.entity_counter, e |-> ent]),
                  st.entity_counter),
     id |-> st.entity_counter]

\* EntityManager::emplace_entity (through EntityManager::spawn): the new store
\* and the id handed out.
EmplaceEntity(st, ent) ==
    [st |-> Store(Append(st.entities, [id |-> st.entity_counter, e |-> ent]),
                  st.entity_counter + 1),
     id |-> st.entity_counter]

\* Position in the list of the first entity with this id, 0 when there is none
\* (Iterator::find).
Find(es, id) ==
    IF \E i \in 1..Len(es) : es[i].id = id
    THEN CHOOSE i \in 1..Len(es) : es[i].id = id /\ \A j \in 1..(i - 1) : es[j].id # id
    ELSE 0

\* EntityManager::iter: the positions of the live entities, in list order.
Iter(es) == SelectSeq([i \in 1..Len(es) |-> i], LAMBDA i : es[i].e.alive)

IsLive(es, id) == \E i \in 1..Len(es) : es[i].id = id /\ es[i].e.alive

\* A destroy that takes the entity out of the list.
DestroyRemoving(es, id) == SelectSeq(es, LAMBDA x : x.id # id)

\* EntityManager::destroy: kill the entity; the unwrap panics when the id is
\* unknown (Find = 0), which the caller tests first.
Destroy(es, id) == [es EXCEPT ![Find(es, id)].e.alive = FALSE]

\* EntityManager::set_position: silently nothing when the id is unknown.
SetPosition(es, id, pos) ==
    IF Find(es, id) = 0 THEN es ELSE [es EXCEPT ![Find(es, id)].e.pos = pos]

\* BaseEntity::tick: pos += dt * speed * normalize(direction).
EntityTick(e, d) == [e EXCEPT !.pos = e.pos + d * e.speed * Sgn(e.dir)]

\* EntityManager::tick: tick all alive entities.
EntsTick(es, d) ==
    [i \in 1..Len(es) |->
        IF es[i].e.alive THEN [es[i] EXCEPT !.e = EntityTick(es[i].e, d)] ELSE es[i]]

\* ----------------------------------------------------------------- server.rs
\* A datagram the server sends.  `via` names the code path that sent it and
\* `ok` records whether the store reflected the frame's mutation when it was
\* sent: a spawned id is live, an updated position is stored, a destroyed id
\* is not live.
Reflects(es, op, id, pos) ==
    CASE op = EntitySpawn -> IsLive(es, id)
      [] op = EntityUpdate -> Find(es, id) # 0 /\ es[Find(es, id)].e.pos = pos
      [] op = EntityDestroy -> ~IsLive(es, id)
      [] OTHER -> TRUE

Out(to, via, p, es) ==
    [to |-> to, via |-> via, p |-> p, ok |-> Reflects(es, p.op, p.id, p.pos)]

RECURSIVE SetToSeq(_)
SetToSeq(S) ==
    IF S = {} THEN <<>>
    ELSE LET m == CHOOSE x \in S : \A y \in S : x <= y
         IN  <<m>> \o SetToSeq(S \ {m})

\* broadcast that forgets the origin filter.
BroadcastEcho(p, but, addrs, es) ==
    LET to == SetToSeq(addrs)
    IN  [i \in 1..Len(to) |-> Out(to[i], "broadcast", p, es)]

\* broadcast: the packet to every address of `addrs` other than `but`.
Broadcast(p, but, addrs, es) ==
    LET to == SetToSeq({a \in addrs : a # but})
    IN  [i \in 1..Len(to) |-> Out(to[i], "broadcast", p, es)]

\* A synchronize that walks the whole entity list, dead entities included.
SynchronizeAll(address, es) ==
    [i \in 1..Len(es) |->
        Out(address, "sync",
            Packet(EntitySpawn, es[i].id, es[i].e.kind, es[i].e.pos, es[i].e.scale,
                   es[i].e.speed, es[i].e.dir),
            es)]

\* read_packet_and_update_world, new-client branch: an EntitySpawn for every
\* entity EntityManager::iter yields.
Synchronize(address, es) ==
    LET live == Iter(es)
    IN  [i \in 1..Len(live) |->
            Out(address, "sync",
                Packet(EntitySpawn, es[live[i]].id, es[live[i]].e.kind, es[live[i]].e.pos,
                       es[live[i]].e.scale, es[live[i]].e.speed, es[live[i]].e.dir),
                es)]

\* make_forest: one Forest entity at each of the drawn positions.
RECURSIVE MakeForest(_, _)
MakeForest(st, trees) ==
    IF trees = <<>> THEN st
    ELSE MakeForest(EmplaceEntity(st, BaseEntity(Head(trees), ForestScale, 0, 0, "Forest")).st,
                    Tail(trees))

\* HashMap::insert and HashMap::remove on a map kept as a function.
Insert(m, k, v) == [x \in DOMAIN m \cup {k} |-> IF x = k THEN v ELSE m[x]]
Remove(m, k) == [x \in DOMAIN m \ {k} |-> m[x]]
Empty == [x \in {} |-> 0]

\* Id resolution left out: the inbound id is used as it came.
ResolveIdLiteral(id, address, pids) == id

\* The id an inbound EntityUpdate / EntityDestroy is applied under:
\* `if e.id == 0 { e.id = player_ids[&address]; }`.  The index panics when the
\* address has no entry, which the caller tests first.
ResolveId(id, address, pids) == IF id = 0 THEN pids[address] ELSE id

\* The spawn rebroadcast with the id the client sent.
AssignIdKept(e, id) == e

\* read_packet_and_update_world, EntitySpawn arm: `e.id = id`.
AssignId(e, id) == [e EXCEPT !.id = id]

ResolvePanics(id, address, pids) == id = 0 /\ address \notin DOMAIN pids

\* What the last step processed, for the properties.
Last(op, from, p, targets, joined, st, pids, purged) ==
    [op |-> op, from |-> from, p |-> p, targets |-> targets, joined |-> joined,
     purged |-> purged,
     counter |-> st.entity_counter,
     live |-> IF joined THEN {st.entities[i].id : i \in {j \in 1..Len(st.entities) :
                                                  st.entities[j].e.alive}}
              ELSE {},
     pids |-> pids]

Step(op) == Last(op, NoAddr, NoData(Hello), {}, FALSE, Store(<<>>, 0), Empty, {})

NoLast == Step("none")

DestroyIds(out) == {out[i].p.id : i \in {j \in 1..Len(out) : out[j].p.op = EntityDestroy}}

NoReply == [to |-> NoAddr, op |-> Hello]

\* Client histories before anything happened.
NoRecv ==
    [caller |-> "none", address |-> "none", ds |-> <<>>, result |-> "none",
     frame |-> NoData(Hello), out |-> <<>>, remote |-> 0, from |-> 0]

NoTick ==
    [got |-> FALSE, op |-> Hello, p |-> NoData(Hello), before |-> <<>>, after |-> <<>>,
     table |-> Empty, counter |-> 0, abort |-> FALSE, keys_sent |-> 0, keys_taken |-> 0,
     pos_sent |-> 0, pos_taken |-> 0]

\* What Server::recv returns to recv_loop: a frame with its source, or an io
\* error of some kind.
RecvOk(d) == [res |-> "Ok", d |-> d]
RecvErr(kind) == [res |-> kind, d |-> InFrame(Hello, NoAddr, NoData(Hello))]

NoResult == [res |-> "none", d |-> InFrame(Hello, NoAddr, NoData(Hello)), pushed |-> FALSE]

\* ------------------------------------------------- common.rs: the codec
\* A Packet as it is on the wire: the opcode byte and the payload bytes.
WirePacket(opcode, data) == [opcode |-> opcode, data |-> data]

\* EntityKind as u8.
KindBytes == 0..4

\* A typed value.  An f32 is held as its bit pattern, read as an i32: the
\* conversions to and from bytes move bits and compute nothing.  The fields a
\* type does not have are 0.
CodecValue(type, id, kind, x, y, scale, speed, dx, dy) ==
    [type |-> type, id |-> id, kind |-> kind, x |-> x, y |-> y, scale |-> scale,
     speed |-> speed, dx |-> dx, dy |-> dy]

NoValue == CodecValue("none", 0, 0, 0, 0, 0, 0, 0, 0)
NoPacket == WirePacket(0, <<>>)
NoRaw == [origin |-> "none", res |-> "none", bytes |-> <<>>]
NoDecode == [type |-> "none", res |-> "none", value |-> NoValue]

\* The opcode and the payload width of each type.
OpOf(type) ==
    CASE type = "EntitySpawn" -> EntitySpawn
      [] type = "EntityUpdate" -> EntityUpdate
      [] type = "EntityDestroy" -> EntityDestroy

WidthOf(type) ==
    CASE type = "EntitySpawn" -> 29
      [] type = "EntityUpdate" -> 12
      [] type = "EntityDestroy" -> 4

\* i32::to_be_bytes / f32::to_be_bytes of a 32-bit pattern.
ToBe(v) ==
    <<(v \div 16777216) % 256, (v \div 65536) % 256, (v \div 256) % 256, v % 256>>

\* i32::from_le_bytes in the place of from_be_bytes.
FromLe(data, at) ==
    (IF data[at + 4] >= 128 THEN data[at + 4] - 256 ELSE data[at + 4]) * 16777216
    + data[at + 3] * 65536 + data[at + 2] * 256 + data[at + 1]

\* i32::from_be_bytes / f32::from_be_bytes of data[at..at+4] (at counts from 0).
FromBe(data, at) ==
    (IF data[at + 1] >= 128 THEN data[at + 1] - 256 ELSE data[at + 1]) * 16777216
    + data[at + 2] * 65536 + data[at + 3] * 256 + data[at + 4]

\* From<EntitySpawn>, From<EntityUpdate>, From<EntityDestroy> for Packet.
IntoPacket(x) ==
    CASE x.type = "EntitySpawn" ->
            WirePacket(EntitySpawn,
                       ToBe(x.id) \o <<x.kind>> \o ToBe(x.x) \o ToBe(x.y) \o ToBe(x.scale)
                       \o ToBe(x.speed) \o ToBe(x.dx) \o ToBe(x.dy))
      [] x.type = "EntityUpdate" ->
            WirePacket(EntityUpdate, ToBe(x.id) \o ToBe(x.x) \o ToBe(x.y))
      [] x.type = "EntityDestroy" ->
            WirePacket(EntityDestroy, ToBe(x.id))

\* The fields a type reads from a payload that is long enough.
Decoded(type, data) ==
    CASE type = "EntitySpawn" ->
            CodecValue(type, FromBe(data, 0), data[5], FromBe(data, 5), FromBe(data, 9),
                       FromBe(data, 13), FromBe(data, 17), FromBe(data, 21), FromBe(data, 25))
      [] type = "EntityUpdate" ->
            CodecValue(type, FromBe(data, 0), 0, FromBe(data, 4), FromBe(data, 8), 0, 0, 0, 0)
      [] type = "EntityDestroy" ->
            CodecValue(type, FromBe(data, 0), 0, 0, 0, 0, 0, 0, 0)

\* TryFrom<Packet> that decodes whatever the opcode is.
TryFromAnyOpcode(type, p) ==
    IF Len(p.data) < WidthOf(type)
    THEN [type |-> type, res |-> "panic", value |-> NoValue]
    ELSE [type |-> type, res |-> "Ok", value |-> Decoded(type, p.data)]

\* TryFrom<Packet> for EntitySpawn, EntityUpdate and EntityDestroy: BadOpcode
\* on another opcode, else the fields from their fixed places; a slice past
\* the end of the payload panics.
TryFrom(type, p) ==
    IF p.opcode # OpOf(type)
    THEN [type |-> type, res |-> "BadOpcode", value |-> NoValue]
    ELSE IF Len(p.data) < WidthOf(type)
    THEN [type |-> type, res |-> "panic", value |-> NoValue]
    ELSE [type |-> type, res |-> "Ok", value |-> Decoded(type, p.data)]

\* Packet::recv_from: a buffer of LEN zero bytes is filled with the datagram
\* (cut to LEN); the first byte is the opcode and the rest, up to the end of
\* the buffer, the payload.  The number of bytes received is not looked at.
Padded(bytes, n) == [i \in 1..n |-> IF i <= Len(bytes) THEN bytes[i] ELSE 0]

RecvFrom(bytes) ==
    [res |-> "Ok", packet |-> WirePacket(Padded(bytes, LEN)[1], Tail(Padded(bytes, LEN)))]

NoCall == [accumulator |-> 0, d |-> 0, ret |-> FALSE, op |-> "none"]

Init ==
    /\ c_pc = "main"
    /\ c_state = "Disconnected"
    /\ c_remote = 0
    /\ c_out = <<>>
    /\ c_recv = NoRecv
    /\ c_rx = <<>>
    /\ c_recv_alive = FALSE
    /\ c_ents = <<>>
    /\ c_counter = 0
    /\ server_to_local_id = Empty
    /\ player_id = 0
    /\ c_ping_timer = TimerNew
    /\ player_pos_timer = TimerNew
    /\ timeout_timer = TimerNew
    /\ shot_cooldown = 0
    /\ c_ticks = 0
    /\ c_hellos = 0
    /\ c_silent = 0
    /\ c_created = Empty
    /\ c_spawned = {}
    /\ c_keys = 0
    /\ c_poss = 0
    /\ c_last = NoTick
    /\ t_threshold = 0
    /\ t_accumulator = 0
    /\ t_call = NoCall
    /\ t_total = 0
    /\ t_fired = 0
    /\ r_last = NoResult
    /\ w_raw = NoRaw
    /\ w_packet = NoPacket
    /\ w_value = NoValue
    /\ w_result = NoDecode
    /\ \E trees \in [1..NumTrees -> TreePos] :
        /\ entities = MakeForest(Store(<<>>, 0), trees).entities
        /\ entity_counter = MakeForest(Store(<<>>, 0), trees).entity_counter
    /\ clients = Empty
    /\ player_ids = Empty
    /\ rx = <<>>
    /\ ping_timer = TimerNew
    /\ hunter_timer = TimerNew
    /\ advances = 0
    /\ dt = 0
    /\ pc = "read"
    /\ aborted = FALSE
    /\ recv_alive = TRUE
    /\ replied = NoReply
    /\ sent = <<>>
    /\ last = NoLast
    /\ since_reset = Empty
    /\ evicted_players = {}
    /\ destroyed_sent = {}

\* Server::recv inside recv_loop, one datagram: Hello and Ping are answered on
\* the socket and the loop keeps receiving; anything else is handed to
\* recv_loop, which pushes it on the channel (tx.send(msg).unwrap() panics once
\* the tick thread has dropped the receiver).  The channel is all the two
\* threads share and the tick thread polls it only at the top of its loop, so
\* the receive thread's steps are placed there.
ClientSpawns(es, q) ==
    Cardinality({i \in 1..Len(es) : es[i].e.kind \in {"Player", "PlayerProjectile"}})
    + Cardinality({i \in 1..Len(q) : q[i].op = EntitySpawn})

\* recv_loop that takes every error for fatal.
RecvMatchFatal(r) == [push |-> r.res = "Ok", alive |-> r.res = "Ok"]

\* recv_loop, the match on the result of Server::recv: Ok is pushed, a
\* ConnectionReset is passed over, any other error panics.
RecvMatch(r) == [push |-> r.res = "Ok", alive |-> r.res \in {"Ok", "ConnectionReset"}]

\* One receive of the receive thread, over the datagrams and the io errors the
\* socket can produce, with `depth` frames at most waiting in the channel;
\* `track` keeps the history of the result.
RecvLoopWith(datagrams, growth, errors, depth, track) ==
    /\ recv_alive
    /\ pc = "read" \/ aborted
    /\ \E r \in {RecvOk(d) : d \in datagrams} \cup {RecvErr(k) : k \in errors} :
        LET d == r.d
            m == RecvMatch(r)
        IN  IF r.res = "Ok" /\ d.op = Hello
            THEN /\ replied' = [to |-> d.from, op |-> Hello]
                 /\ UNCHANGED <<rx, recv_alive, r_last>>
            ELSE IF r.res = "Ok" /\ d.op = Ping
            THEN /\ replied' = [to |-> d.from, op |-> Pong]
                 /\ UNCHANGED <<rx, recv_alive, r_last>>
            ELSE IF m.push /\ aborted
            THEN /\ recv_alive' = FALSE
                 /\ replied' = NoReply
                 /\ UNCHANGED <<rx, r_last>>
            ELSE /\ m.push => Len(rx) < depth
                 /\ (m.push /\ d.op = EntitySpawn) =>
                        ClientSpawns(entities, rx) + advances < growth
                 /\ rx' = IF m.push THEN Append(rx, d) ELSE rx
                 /\ recv_alive' = m.alive
                 /\ replied' = NoReply
                 /\ r_last' = IF track THEN [res |-> r.res, d |-> d, pushed |-> m.push]
                               ELSE r_last
    /\ UNCHANGED <<entities, entity_counter, clients, player_ids, ping_timer, hunter_timer,
                   advances, dt, pc, aborted, sent, last, since_reset, evicted_players,
                   destroyed_sent>>
    /\ UNCHANGED client_vars
    /\ UNCHANGED timer_vars
    /\ UNCHANGED codec_vars

\* The receive thread on a socket that reports no error.
RecvLoopOn(datagrams, growth) == RecvLoopWith(datagrams, growth, {}, MaxQueue, FALSE)

RecvLoop == RecvLoopOn(Datagrams, MaxGrowth)

\* The opcode match of read_packet_and_update_world for the frame p from
\* `address`, with `cl` the registry after the session lookup.  `ub` is the
\* outcome of matching an opcode that is no common::OpCode value (transmute of
\* an out-of-range byte): TRUE aborts, FALSE takes no arm.
Handle(p, address, cl, st, pids, ub) ==
    LET same == [st |-> st, pids |-> pids, out |-> <<>>, abort |-> FALSE, targets |-> {}]
    IN  CASE p.op = Pong -> same
          [] p.op = EntitySpawn ->
                LET r == EmplaceEntity(st, BaseEntity(p.pos, p.scale, p.speed, p.dir, p.kind))
                    e == AssignId(p, r.id)
                IN  [st |-> r.st,
                     pids |-> IF e.kind = "Player" THEN Insert(pids, address, r.id) ELSE pids,
                     out |-> Broadcast(e, address, DOMAIN cl, r.st.entities),
                     abort |-> FALSE, targets |-> {}]
          [] p.op = EntityUpdate ->
                IF ResolvePanics(p.id, address, pids) THEN [same EXCEPT !.abort = TRUE]
                ELSE LET e == [p EXCEPT !.id = ResolveId(p.id, address, pids)]
                         es == SetPosition(st.entities, e.id, e.pos)
                     IN  [st |-> Store(es, st.entity_counter), pids |-> pids,
                          out |-> Broadcast(e, address, DOMAIN cl, es),
                          abort |-> FALSE, targets |-> {e.id}]
          [] p.op = EntityDestroy ->
                IF ResolvePanics(p.id, address, pids) THEN [same EXCEPT !.abort = TRUE]
                ELSE LET e == [p EXCEPT !.id = ResolveId(p.id, address, pids)]
                     IN  IF Find(st.entities, e.id) = 0
                         THEN [same EXCEPT !.abort = TRUE]
                         ELSE LET es == Destroy(st.entities, e.id)
                              IN  [st |-> Store(es, st.entity_counter), pids |-> pids,
                                   out |-> Broadcast(e, address, DOMAIN cl, es),
                                   abort |-> FALSE, targets |-> {e.id}]
          [] OTHER -> [same EXCEPT !.abort = ub]

\* A poll that takes the frame queued last.
TryRecvNewest(q) ==
    IF q = <<>>
    THEN [ok |-> FALSE, msg |-> InFrame(Hello, NoAddr, NoData(Hello)), rest |-> q]
    ELSE [ok |-> TRUE, msg |-> q[Len(q)], rest |-> SubSeq(q, 1, Len(q) - 1)]

\* rx.try_recv(): the oldest frame of the channel if there is one; it never
\* waits, and it fails the same way on an empty channel whether or not the
\* sender is still there.
TryRecv(q) ==
    IF q = <<>>
    THEN [ok |-> FALSE, msg |-> InFrame(Hello, NoAddr, NoData(Hello)), rest |-> q]
    ELSE [ok |-> TRUE, msg |-> Head(q), rest |-> Tail(q)]

\* read_packet_and_update_world: poll the channel once; for a frame, look the
\* session up (reset its timer, or create it and synchronize), then match on
\* the opcode.
ReadPacket ==
    /\ pc = "read"
    /\ ~aborted
    /\ pc' = "tick"
    /\ destroyed_sent' = destroyed_sent \cup DestroyIds(sent)
    /\ IF ~TryRecv(rx).ok
       THEN /\ sent' = <<>>
            /\ last' = Step("idle")
            /\ UNCHANGED <<entities, entity_counter, clients, player_ids, rx, aborted,
                           since_reset>>
       ELSE LET p == TryRecv(rx).msg.p
                address == TryRecv(rx).msg.from
                joined == address \notin DOMAIN clients
                st == Store(entities, entity_counter)
                cl == IF joined THEN Insert(clients, address, TimerNew)
                      ELSE [clients EXCEPT ![address] = TimerReset]
                sync == IF joined THEN Synchronize(address, entities) ELSE <<>>
            IN  \E ub \in IF p.op \in {Pong, EntitySpawn, EntityUpdate, EntityDestroy}
                          THEN {FALSE} ELSE BOOLEAN :
                    LET h == Handle(p, address, cl, st, player_ids, ub)
                    IN  /\ rx' = TryRecv(rx).rest
                        /\ clients' = IF p.op = Pong THEN [cl EXCEPT ![address] = TimerReset]
                                      ELSE cl
                        /\ entities' = h.st.entities
                        /\ entity_counter' = h.st.entity_counter
                        /\ player_ids' = h.pids
                        /\ aborted' = h.abort
                        /\ sent' = sync \o h.out
                        /\ since_reset' = Insert(since_reset, address, 0)
                        /\ last' = Last("read", address, p, h.targets, joined, st, player_ids, {})
    /\ replied' = NoReply
    /\ UNCHANGED <<ping_timer, hunter_timer, advances, dt, recv_alive, evicted_players>>
    /\ UNCHANGED r_last
    /\ UNCHANGED client_vars
    /\ UNCHANGED timer_vars
    /\ UNCHANGED codec_vars

\* The orders a HashMap iteration may yield the addresses of S in.
Orders(S) ==
    {o \in [1..Cardinality(S) -> S] : \A i, j \in 1..Cardinality(S) : o[i] = o[j] => i = j}

\* A purge loop that broadcasts before it removes the session.
RECURSIVE PurgeBeforeRemove(_, _, _)
PurgeBeforeRemove(order, s, es) ==
    IF order = <<>> THEN s
    ELSE LET address == Head(order)
             cl == Remove(s.clients, address)
         IN  IF address \in DOMAIN s.player_ids
             THEN LET id == s.player_ids[address]
                  IN  PurgeBeforeRemove(Tail(order),
                            [clients |-> cl,
                             player_ids |-> Remove(s.player_ids, address),
                             out |-> s.out \o Broadcast(Packet(EntityDestroy, id, "Tile", 0, 0, 0, 0),
                                                        NoAddr, DOMAIN s.clients, es),
                             ids |-> s.ids \cup {id}],
                            es)
             ELSE PurgeBeforeRemove(Tail(order), [s EXCEPT !.clients = cl], es)

\* A purge loop that removes the session and leaves its player_ids entry.
RECURSIVE PurgeKeepsPlayerId(_, _, _)
PurgeKeepsPlayerId(order, s, es) ==
    IF order = <<>> THEN s
    ELSE LET address == Head(order)
             cl == Remove(s.clients, address)
         IN  IF address \in DOMAIN s.player_ids
             THEN LET id == s.player_ids[address]
                  IN  PurgeKeepsPlayerId(Tail(order),
                            [clients |-> cl,
                             player_ids |-> s.player_ids,
                             out |-> s.out \o Broadcast(Packet(EntityDestroy, id, "Tile", 0, 0, 0, 0),
                                                        NoAddr, DOMAIN cl, es),
                             ids |-> s.ids \cup {id}],
                            es)
             ELSE PurgeKeepsPlayerId(Tail(order), [s EXCEPT !.clients = cl], es)

\* tick, the purge loop: remove the session and, when it owned a player
\* entity, broadcast EntityDestroy for it to the sessions that remain.
RECURSIVE Purge(_, _, _)
Purge(order, s, es) ==
    IF order = <<>> THEN s
    ELSE LET address == Head(order)
             cl == Remove(s.clients, address)
         IN  IF address \in DOMAIN s.player_ids
             THEN LET id == s.player_ids[address]
                  IN  Purge(Tail(order),
                            [clients |-> cl,
                             player_ids |-> Remove(s.player_ids, address),
                             out |-> s.out \o Broadcast(Packet(EntityDestroy, id, "Tile", 0, 0, 0, 0),
                                                        NoAddr, DOMAIN cl, es),
                             ids |-> s.ids \cup {id}],
                            es)
             ELSE Purge(Tail(order), [s EXCEPT !.clients = cl], es)

\* tick, the hunter loop: destroy each listed hunter, then broadcast its
\* EntityDestroy.
RECURSIVE HunterPurge(_, _, _)
HunterPurge(ids, s, addrs) ==
    IF ids = <<>> THEN s
    ELSE LET es == Destroy(s.es, Head(ids))
         IN  HunterPurge(Tail(ids),
                         [es |-> es,
                          out |-> s.out \o Broadcast(Packet(EntityDestroy, Head(ids), "Tile", 0, 0, 0, 0),
                                                     NoAddr, addrs, es)],
                         addrs)

\* tick: advance every session timer, purge the sessions whose timer fired,
\* tick the entities, destroy the hunters that reached the origin.
TickOn(dts, growth) ==
    /\ pc = "tick"
    /\ ~aborted
    /\ pc' = "ping"
    /\ destroyed_sent' = destroyed_sent \cup DestroyIds(sent)
    /\ \E d \in dts :
        LET ticked == [a \in DOMAIN clients |-> TimerTick(clients[a], d, TIMEOUT)]
            purge_list == {a \in DOMAIN clients : ticked[a].fired}
            es1 == EntsTick(entities, d)
            live == Iter(es1)
            hunters == SelectSeq(live, LAMBDA i : es1[i].e.kind = "Enemy" /\ es1[i].e.pos = 0)
            hunter_purge_list == [i \in 1..Len(hunters) |-> es1[hunters[i]].id]
        IN  /\ d > 0 => ClientSpawns(entities, rx) + advances < growth
            /\ advances' = IF d > 0 THEN advances + 1 ELSE advances
            /\ \E order \in Orders(purge_list) :
                LET s == Purge(order,
                               [clients |-> [a \in DOMAIN clients |-> ticked[a].accumulator],
                                player_ids |-> player_ids, out |-> <<>>, ids |-> {}],
                               entities)
                    h == HunterPurge(hunter_purge_list, [es |-> es1, out |-> <<>>],
                                     DOMAIN s.clients)
                IN  /\ clients' = s.clients
                    /\ player_ids' = s.player_ids
                    /\ entities' = h.es
                    /\ sent' = s.out \o h.out
                    /\ evicted_players' = evicted_players \cup s.ids
                    /\ since_reset' = [a \in DOMAIN s.clients |-> since_reset[a] + d]
                    /\ dt' = d
                    /\ last' = Last("tick", NoAddr, NoData(Hello),
                                    {hunter_purge_list[i] : i \in 1..Len(hunter_purge_list)},
                                    FALSE, Store(<<>>, 0), player_ids, purge_list)
    /\ replied' = NoReply
    /\ UNCHANGED <<entity_counter, rx, ping_timer, hunter_timer, aborted, recv_alive>>
    /\ UNCHANGED r_last
    /\ UNCHANGED client_vars
    /\ UNCHANGED timer_vars
    /\ UNCHANGED codec_vars

Tick == TickOn(DtChoices, MaxGrowth)

\* run: `if ping_timer.tick(dt) { broadcast(ping, ...) }`.
PingClients ==
    /\ pc = "ping"
    /\ pc' = "hunter"
    /\ destroyed_sent' = destroyed_sent \cup DestroyIds(sent)
    /\ LET t == TimerTick(ping_timer, dt, PING_INTERVAL)
       IN  /\ ping_timer' = t.accumulator
           /\ sent' = IF t.fired THEN Broadcast(NoData(Ping), NoAddr, DOMAIN clients, entities)
                      ELSE <<>>
    /\ last' = Step("ping")
    /\ replied' = NoReply
    /\ UNCHANGED <<entities, entity_counter, clients, player_ids, rx, hunter_timer, advances, dt,
                   aborted, recv_alive, since_reset, evicted_players>>
    /\ UNCHANGED r_last
    /\ UNCHANGED client_vars
    /\ UNCHANGED timer_vars
    /\ UNCHANGED codec_vars

\* spawn_hunter: spawn an Enemy heading for the origin and broadcast it.
SpawnHunter(st, pos, addrs) ==
    LET r == EmplaceEntity(st, BaseEntity(pos, HunterScale, HunterSpeed, 0 - pos, "Enemy"))
    IN  [st |-> r.st,
         out |-> Broadcast(Packet(EntitySpawn, r.id, "Enemy", pos, HunterScale, HunterSpeed,
                                  0 - pos),
                           NoAddr, addrs, r.st.entities)]

\* run: `if hunter_timer.tick(dt) { spawn_hunter(...) }`.
Hunters ==
    /\ pc = "hunter"
    /\ pc' = "read"
    /\ destroyed_sent' = destroyed_sent \cup DestroyIds(sent)
    /\ LET t == TimerTick(hunter_timer, dt, HUNTER_INTERVAL)
       IN  /\ hunter_timer' = t.accumulator
           /\ IF t.fired
              THEN \E pos \in HunterSpawns :
                    LET h == SpawnHunter(Store(entities, entity_counter), pos, DOMAIN clients)
                    IN  /\ entities' = h.st.entities
                        /\ entity_counter' = h.st.entity_counter
                        /\ sent' = h.out
              ELSE /\ sent' = <<>>
                   /\ UNCHANGED <<entities, entity_counter>>
    /\ last' = Step("hunter")
    /\ replied' = NoReply
    /\ UNCHANGED <<clients, player_ids, rx, ping_timer, advances, dt, aborted, recv_alive,
                   since_reset, evicted_players>>
    /\ UNCHANGED r_last
    /\ UNCHANGED client_vars
    /\ UNCHANGED timer_vars
    /\ UNCHANGED codec_vars

Next == RecvLoop \/ ReadPacket \/ Tick \/ PingClients \/ Hunters

Spec == Init /\ [][Next]_vars

\* The same server under traffic that only keeps sessions alive and spawns
\* players, followed over more elapsed time: sessions of different ages meet
\* the timeout sweep.
SweepDatagrams ==
    {InFrame(op, a, NoData(op)) : op \in {Ping, Pong}, a \in Addrs}
    \cup {InFrame(EntitySpawn, a, Packet(EntitySpawn, 0, "Player", pos, sc, sp, 0)) :
            a \in Addrs, pos \in SpawnPos, sc \in SpawnScale, sp \in SpawnSpeed}

SweepRecvLoop == RecvLoopOn(SweepDatagrams, MaxSweepGrowth)

SweepTick == TickOn(DtChoices, MaxSweepGrowth)

SweepNext == SweepRecvLoop \/ ReadPacket \/ SweepTick \/ PingClients \/ Hunters

SpecSweep == Init /\ [][SweepNext]_vars

\* The server with its tick thread scheduled: the loop of run never waits, so
\* each of its steps is taken once it is enabled, and the wall clock moves, so
\* iterations that see time pass keep coming while the budget lasts.  The
\* receive thread gets no fairness: nobody has to send.  A client spawn is
\* accepted only as the very first event.
LiveDatagrams ==
    {InFrame(Pong, a, NoData(Pong)) : a \in Addrs}
    \cup {InFrame(EntitySpawn, a, Packet(EntitySpawn, 0, "Player", pos, sc, sp, 0)) :
            a \in Addrs, pos \in SpawnPos, sc \in SpawnScale, sp \in SpawnSpeed}
    \cup {InFrame(EntityUpdate, a, Packet(EntityUpdate, 0, "Tile", pos, 0, 0, 0)) :
            a \in Addrs, pos \in UpdatePos}

LiveRecvLoop == RecvLoopOn(LiveDatagrams, 1)

\* Frame deltas that each stay below TIMEOUT: only accumulated time evicts.
LiveDts == DtChoices \ {MaxDt}

LiveTick == TickOn(LiveDts, MaxLiveGrowth)

LiveNext == LiveRecvLoop \/ ReadPacket \/ LiveTick \/ PingClients \/ Hunters

\* The step the loop of run takes from one position to the next; it is
\* enabled at that position for as long as the thread has not panicked.
LoopAt(from, to) == pc = from /\ ~aborted /\ pc' = to

\* A loop iteration whose `now - last` is positive.
TimePasses ==
    /\ LoopAt("tick", "ping")
    /\ ClientSpawns(entities, rx) + advances < MaxLiveGrowth
    /\ dt' \in LiveDts \ {0}

SpecLive ==
    /\ Init
    /\ [][LiveNext]_vars
    /\ WF_pc(LoopAt("read", "tick"))
    /\ WF_pc(LoopAt("tick", "ping"))
    /\ WF_pc(LoopAt("ping", "hunter"))
    /\ WF_pc(LoopAt("hunter", "read"))
    /\ SF_pc(TimePasses)

\* The server on a socket that reports errors, with room in the channel for
\* frames to queue up behind one another; no time passes, so no session ends
\* and the world does not move.
RecvDatagrams ==
    {InFrame(op, a, NoData(op)) : op \in {Hello, Ping, Pong}, a \in Addrs}
    \cup {InFrame(EntityUpdate, a, Packet(EntityUpdate, 1, "Tile", pos, 0, 0, 0)) :
            a \in Addrs, pos \in UpdatePos}

RecvErrors == {"ConnectionReset", "Other"}

RecvThread == RecvLoopWith(RecvDatagrams, 0, RecvErrors, MaxRecvQueue, TRUE)

RecvTick == TickOn({0}, 0)

RecvNext == RecvThread \/ ReadPacket \/ RecvTick \/ PingClients \/ Hunters

SpecRecv == Init /\ [][RecvNext]_vars

\* ------------------------------------------------------ client: socket.rs
\* The datagrams that can reach the client socket.  A Port frame carries the
\* new port in the first bytes of its payload, held here in the id field.
ClientDatagrams ==
    {NoData(op) : op \in {Hello, Ping, Pong}}
    \cup {Packet(Port, port, "Tile", 0, 0, 0, 0) : port \in InPorts}
    \cup {Packet(EntitySpawn, id, "Enemy", 3, HunterScale, HunterSpeed, 0 - 1) : id \in InServerIds}
    \cup {Packet(EntityUpdate, id, "Tile", 5, 0, 0, 0) : id \in InServerIds}
    \cup {Packet(EntityDestroy, id, "Tile", 0, 0, 0, 0) : id \in InServerIds}

\* The datagrams waiting at the socket during one call of recv, in order; the
\* read times out when the call has read them all.
Bursts(n) == UNION {[1..k -> ClientDatagrams] : k \in 0..n}

\* A frame the client sends, with the port it goes to.
COut(port, p) == [to |-> port, p |-> p]

\* Client::recv that hands a Port frame back instead of acting on it.
RECURSIVE ClientRecvPortBlind(_, _)
ClientRecvPortBlind(ds, remote) ==
    IF ds = <<>>
    THEN [result |-> "IoError", frame |-> NoData(Hello), out |-> <<>>, remote |-> remote]
    ELSE IF Head(ds).op = Ping
         THEN LET r == ClientRecvPortBlind(Tail(ds), remote)
              IN  [r EXCEPT !.out = <<COut(remote, NoData(Pong))>> \o r.out]
         ELSE [result |-> "Ok", frame |-> Head(ds), out |-> <<>>, remote |-> remote]

\* Client::recv: read datagrams until one is neither Ping nor Port; answer a
\* Ping with a Pong, re-target the socket on a Port; a read that times out
\* ends the call with the io error.
RECURSIVE ClientRecv(_, _)
ClientRecv(ds, remote) ==
    IF ds = <<>>
    THEN [result |-> "IoError", frame |-> NoData(Hello), out |-> <<>>, remote |-> remote]
    ELSE IF Head(ds).op = Ping
         THEN LET r == ClientRecv(Tail(ds), remote)
              IN  [r EXCEPT !.out = <<COut(remote, NoData(Pong))>> \o r.out]
         ELSE IF Head(ds).op = Port
         THEN ClientRecv(Tail(ds), Head(ds).id)
         ELSE [result |-> "Ok", frame |-> Head(ds), out |-> <<>>, remote |-> remote]

\* Client::connect that takes any reply for the acknowledgement.
ConnectAnyReply(address, ds) ==
    CASE address = "error" ->
            [result |-> "IoError", out |-> <<>>, remote |-> 0, frame |-> NoData(Hello)]
      [] address = "none" ->
            [result |-> "BadAddress", out |-> <<>>, remote |-> 0, frame |-> NoData(Hello)]
      [] OTHER ->
            LET r == ClientRecv(ds, DefaultPort)
            IN  [result |-> r.result,
                 out |-> <<COut(DefaultPort, NoData(Hello))>> \o r.out,
                 remote |-> r.remote,
                 frame |-> r.frame]

\* Client::connect: resolve the address, connect the socket, send Hello and
\* judge the first frame recv hands back.
Connect(address, ds) ==
    CASE address = "error" ->
            [result |-> "IoError", out |-> <<>>, remote |-> 0, frame |-> NoData(Hello)]
      [] address = "none" ->
            [result |-> "BadAddress", out |-> <<>>, remote |-> 0, frame |-> NoData(Hello)]
      [] OTHER ->
            LET r == ClientRecv(ds, DefaultPort)
            IN  [result |-> IF r.result # "Ok" THEN r.result
                            ELSE IF r.frame.op # Hello THEN "BadOpcode" ELSE "Ok",
                 out |-> <<COut(DefaultPort, NoData(Hello))>> \o r.out,
                 remote |-> r.remote,
                 frame |-> r.frame]

Hellos(out) == Len(SelectSeq(out, LAMBDA f : f.p.op = Hello))

\* main: `sock.connect((client_ip, default_port)).unwrap()`.
ClientConnectOn(bursts) ==
    /\ c_pc = "main"
    /\ \E address \in Resolutions, ds \in bursts :
        LET r == Connect(address, ds)
        IN  /\ c_pc' = IF r.result = "Ok" THEN "new" ELSE "exit"
            /\ c_state' = IF r.result = "Ok" THEN "Connected" ELSE "Disconnected"
            /\ c_remote' = r.remote
            /\ c_out' = r.out
            /\ c_hellos' = c_hellos + Hellos(r.out)
            /\ c_recv' = [caller |-> "connect", address |-> address, ds |-> ds,
                          result |-> r.result,
                          frame |-> r.frame,
                          out |-> r.out, remote |-> r.remote,
                          from |-> IF address = "one" THEN DefaultPort ELSE 0]
    /\ UNCHANGED <<c_rx, c_recv_alive, c_ents, c_counter, server_to_local_id, player_id,
                   c_ping_timer, player_pos_timer, timeout_timer, shot_cooldown, c_ticks,
                   c_silent, c_created, c_spawned, c_keys, c_poss, c_last>>
    /\ UNCHANGED server_vars
    /\ UNCHANGED timer_vars
    /\ UNCHANGED codec_vars

\* main.rs recv_loop, one iteration: push what recv returns, stop on an error
\* (tx.send(msg).unwrap() panics once the engine has dropped the receiver).
ClientRecvLoopOn(bursts) ==
    /\ c_recv_alive
    /\ Len(c_rx) < MaxQueue
    /\ \E ds \in bursts :
        LET r == ClientRecv(ds, c_remote)
        IN  /\ c_remote' = r.remote
            /\ c_out' = r.out
            /\ c_hellos' = c_hellos + Hellos(r.out)
            /\ c_recv' = [caller |-> "recv_loop", address |-> "one", ds |-> ds,
                          result |-> r.result,
                          frame |-> r.frame, out |-> r.out, remote |-> r.remote,
                          from |-> c_remote]
            /\ IF r.result = "Ok" /\ c_pc # "exit"
               THEN c_rx' = Append(c_rx, r.frame) /\ UNCHANGED c_recv_alive
               ELSE c_recv_alive' = FALSE /\ UNCHANGED c_rx
    /\ UNCHANGED <<c_pc, c_state, c_ents, c_counter, server_to_local_id, player_id,
                   c_ping_timer, player_pos_timer, timeout_timer, shot_cooldown, c_ticks,
                   c_silent, c_created, c_spawned, c_keys, c_poss, c_last>>
    /\ UNCHANGED server_vars
    /\ UNCHANGED timer_vars
    /\ UNCHANGED codec_vars

\* -------------------------------------------------------- client: main.rs
\* Engine::new: start the receive thread, create the timers.
EngineNew ==
    /\ c_pc = "new"
    /\ c_pc' = "run"
    /\ c_recv_alive' = TRUE
    /\ server_to_local_id' = Empty
    /\ player_id' = 0
    /\ c_ping_timer' = TimerNew
    /\ player_pos_timer' = TimerNew
    /\ timeout_timer' = TimerNew
    /\ shot_cooldown' = 0
    /\ c_out' = <<>>
    /\ UNCHANGED <<c_state, c_remote, c_recv, c_rx, c_ents, c_counter, c_ticks, c_hellos,
                   c_silent, c_created, c_spawned, c_keys, c_poss, c_last>>
    /\ UNCHANGED server_vars
    /\ UNCHANGED timer_vars
    /\ UNCHANGED codec_vars

\* EntityManager::create_forest: a Tile for every second cell of the world.
ForestTiles ==
    [i \in 1..((WorldSize + 1) * (WorldSize + 1)) |->
        (0 - WorldSize) + 2 * ((i - 1) % (WorldSize + 1)) + 1]

RECURSIVE CreateForest(_, _)
CreateForest(st, tiles) ==
    IF tiles = <<>> THEN st
    ELSE CreateForest(EmplaceEntity(st, BaseEntity(Head(tiles), 1, 0, 0, "Tile")).st, Tail(tiles))

\* EntityManager::spawn_player: send the EntitySpawn, then store the player.
SpawnPlayer(st, remote) ==
    LET r == EmplaceEntity(st, BaseEntity(1, PlayerScale, PlayerSpeed, 0, "Player"))
    IN  [st |-> r.st, id |-> r.id,
         out |-> <<COut(remote, Packet(EntitySpawn, 0, "Player", 1, PlayerScale, PlayerSpeed, 0))>>]

\* Engine::run up to its loop: the local world and the local player.
EngineRun ==
    /\ c_pc = "run"
    /\ c_pc' = "loop"
    /\ LET r == SpawnPlayer(CreateForest(Store(<<>>, 0), ForestTiles), c_remote)
       IN  /\ c_ents' = r.st.entities
           /\ c_counter' = r.st.entity_counter
           /\ player_id' = r.id
           /\ c_out' = r.out
    /\ UNCHANGED <<c_state, c_remote, c_recv, c_rx, c_recv_alive, server_to_local_id,
                   c_ping_timer, player_pos_timer, timeout_timer, shot_cooldown, c_ticks,
                   c_hellos, c_silent, c_created, c_spawned, c_last>>
    /\ c_keys' = 0
    /\ c_poss' = 0
    /\ UNCHANGED server_vars
    /\ UNCHANGED timer_vars
    /\ UNCHANGED codec_vars

\* EntityManager::get / get_mut: the list index is the id of the entity found.
Slot(es, id) == es[Find(es, id)].id + 1

\* An EntityUpdate applied under the server's id, without the table.
UpdateLocalUntranslated(es, table, p) ==
    LET lid == p.id
        d == p.pos - es[Slot(es, lid)].e.pos
    IN  [es EXCEPT ![Slot(es, lid)].e.dir = d]

\* Engine::tick, EntityUpdate arm: the direction of the translated entity
\* becomes the update position minus its current position.
UpdateLocal(es, table, p) ==
    LET lid == table[p.id]
        d == p.pos - es[Slot(es, lid)].e.pos
    IN  [es EXCEPT ![Slot(es, lid)].e.dir = d]

\* An EntityDestroy applied under the server's id, without the table.
DestroyLocalUntranslated(es, table, p) == Destroy(es, p.id)

\* Engine::tick, EntityDestroy arm: the translated entity is killed.
DestroyLocal(es, table, p) == Destroy(es, table[p.id])

\* Engine::tick, the packet taken from rx_packet.  `ub` is the outcome of
\* matching an opcode that is no common::OpCode value: TRUE aborts, FALSE takes
\* no arm.  The index into server_to_local_id panics on an unknown id.
HandlePacket(p, st, table, ub) ==
    LET same == [st |-> st, table |-> table, abort |-> FALSE, reset |-> FALSE]
    IN  CASE p.op = Pong -> [same EXCEPT !.reset = TRUE]
          [] p.op = EntitySpawn ->
                LET r == EmplaceEntity(st, BaseEntity(p.pos, p.scale, p.speed, p.dir, p.kind))
                IN  [same EXCEPT !.st = r.st, !.table = Insert(table, p.id, r.id)]
          [] p.op = EntityUpdate ->
                IF p.id \notin DOMAIN table THEN [same EXCEPT !.abort = TRUE]
                ELSE [same EXCEPT !.st = Store(UpdateLocal(st.entities, table, p),
                                               st.entity_counter)]
          [] p.op = EntityDestroy ->
                IF p.id \notin DOMAIN table THEN [same EXCEPT !.abort = TRUE]
                ELSE [same EXCEPT !.st = Store(DestroyLocal(st.entities, table, p),
                                               st.entity_counter)]
          [] OTHER -> [same EXCEPT !.abort = ub]

\* Cooldown::tick: the new accumulator and whether the cooldown is over.
CooldownTick(accumulator, d) ==
    LET acc == IF accumulator > d THEN accumulator - d ELSE 0
    IN  [accumulator |-> acc, over |-> acc = 0]

\* EntityManager::tick reaches Player::tick only while the player entity is
\* alive: Player::tick takes one key event from rx and sends one position on ptx.
PlayerTicks(es, pid) == es[Slot(es, pid)].e.alive

\* Player::tick inside EntityManager::tick: the keys give the direction of the
\* local player, then every live entity moves.
ClientEntsTick(es, d, key, pid) ==
    EntsTick(IF PlayerTicks(es, pid) THEN [es EXCEPT ![Slot(es, pid)].e.dir = key] ELSE es, d)

\* Engine::tick: keepalive ping, one packet from the receive thread, the
\* simulation step, the position report and the shot.
EngineTick ==
    /\ c_pc = "loop"
    /\ c_ticks < MaxTicks
    /\ c_ticks' = c_ticks + 1
    /\ \E d \in ClientDts, key \in KeyDirs, space \in BOOLEAN,
          ub \in IF c_rx # <<>> /\ Head(c_rx).op \notin {Pong, EntitySpawn, EntityUpdate, EntityDestroy}
                 THEN BOOLEAN ELSE {FALSE} :
        LET ping == TimerTick(c_ping_timer, d, CLIENT_PING_INTERVAL)
            out1 == IF ping.fired THEN <<COut(c_remote, NoData(Ping))>> ELSE <<>>
            got == c_rx # <<>>
            st == Store(c_ents, c_counter)
            h == IF got THEN HandlePacket(Head(c_rx), st, server_to_local_id, ub)
                 ELSE [st |-> st, table |-> server_to_local_id, abort |-> FALSE, reset |-> FALSE]
            ticks == PlayerTicks(h.st.entities, player_id)
            keys == c_keys + 1
            es2 == ClientEntsTick(h.st.entities, d, key, player_id)
            poss == c_poss + (IF ticks THEN 1 ELSE 0)
            player_pos == es2[Slot(es2, player_id)].e.pos
            pos == TimerTick(player_pos_timer, d, PLAYER_POS_INTERVAL)
            out2 == IF pos.fired
                    THEN <<COut(c_remote, Packet(EntityUpdate, 0, "Tile", player_pos, 0, 0, 0))>>
                    ELSE <<>>
            cd == CooldownTick(shot_cooldown, d)
            shoot == cd.over /\ space
            shot == EmplaceEntity(Store(es2, h.st.entity_counter),
                                  BaseEntity(player_pos, ProjectileScale, ProjectileSpeed, 1,
                                             "PlayerProjectile"))
            out3 == IF shoot
                    THEN <<COut(c_remote, Packet(EntitySpawn, 0, "PlayerProjectile", player_pos,
                                                ProjectileScale, ProjectileSpeed, 1))>>
                    ELSE <<>>
        IN  /\ c_ping_timer' = ping.accumulator
            /\ c_rx' = IF got THEN Tail(c_rx) ELSE c_rx
            /\ c_last' = [got |-> got, op |-> IF got THEN Head(c_rx).op ELSE Hello,
                          p |-> IF got THEN Head(c_rx) ELSE NoData(Hello),
                          before |-> c_ents, after |-> h.st.entities,
                          table |-> server_to_local_id, counter |-> c_counter,
                          abort |-> h.abort,
                          keys_sent |-> IF h.abort THEN 0 ELSE 1,
                          keys_taken |-> IF ~h.abort /\ ticks THEN 1 ELSE 0,
                          pos_sent |-> IF ~h.abort /\ ticks THEN 1 ELSE 0,
                          pos_taken |-> IF ~h.abort /\ poss > 0 THEN 1 ELSE 0]
            /\ c_silent' = IF got THEN 0 ELSE c_silent + d
            /\ c_spawned' = IF got /\ Head(c_rx).op = EntitySpawn /\ ~h.abort
                            THEN c_spawned \cup {c_counter} ELSE c_spawned
            /\ IF h.abort
               THEN /\ c_pc' = "exit"
                    /\ c_out' = out1
                    /\ UNCHANGED <<c_ents, c_counter, server_to_local_id, player_pos_timer,
                                   timeout_timer, shot_cooldown, c_created, c_keys, c_poss>>
               ELSE IF poss = 0
               THEN \* prx.recv() finds no position and no sender has hung up
                    /\ c_pc' = "blocked"
                    /\ c_out' = out1
                    /\ c_ents' = es2
                    /\ c_counter' = h.st.entity_counter
                    /\ server_to_local_id' = h.table
                    /\ timeout_timer' = IF h.reset THEN TimerReset ELSE timeout_timer
                    /\ player_pos_timer' = pos.accumulator
                    /\ c_keys' = IF ticks THEN keys - 1 ELSE keys
                    /\ c_poss' = poss
                    /\ c_created' = IF got /\ Head(c_rx).op = EntitySpawn
                                    THEN Insert(c_created, Head(c_rx).id, c_counter)
                                    ELSE c_created
                    /\ UNCHANGED shot_cooldown
               ELSE /\ c_pc' = "loop"
                    /\ c_keys' = IF ticks THEN keys - 1 ELSE keys
                    /\ c_poss' = poss - 1
                    /\ c_out' = out1 \o out2 \o out3
                    /\ c_ents' = IF shoot THEN shot.st.entities ELSE es2
                    /\ c_counter' = IF shoot THEN shot.st.entity_counter ELSE h.st.entity_counter
                    /\ server_to_local_id' = h.table
                    /\ timeout_timer' = IF h.reset THEN TimerReset ELSE timeout_timer
                    /\ player_pos_timer' = pos.accumulator
                    /\ shot_cooldown' = IF shoot THEN SHOT_COOLDOWN ELSE cd.accumulator
                    /\ c_created' = IF got /\ Head(c_rx).op = EntitySpawn
                                    THEN Insert(c_created, Head(c_rx).id, c_counter)
                                    ELSE c_created
    /\ UNCHANGED <<c_state, c_remote, c_recv, c_recv_alive, player_id, c_hellos>>
    /\ UNCHANGED server_vars
    /\ UNCHANGED timer_vars
    /\ UNCHANGED codec_vars

\* The client: connect, start the engine, then the loop of Engine::run with
\* the receive thread beside it, one datagram per call of recv.
ClientConnect == ClientConnectOn(Bursts(1))

ClientRecvLoop == ClientRecvLoopOn(Bursts(1))

ClientNext == ClientConnect \/ EngineNew \/ EngineRun \/ ClientRecvLoop \/ EngineTick

SpecClient == Init /\ [][ClientNext]_vars

\* The client socket alone, under bursts of datagrams.
SocketConnect == ClientConnectOn(Bursts(MaxBurst))

SocketRecvLoop == ClientRecvLoopOn(Bursts(MaxBurst))

SocketNext == SocketConnect \/ EngineNew \/ EngineRun \/ SocketRecvLoop

SpecSocket == Init /\ [][SocketNext]_vars

\* ------------------------------------------------------- a Timer by itself
\* Timer::new(threshold).
TimerCreate ==
    /\ t_threshold = 0
    /\ \E threshold \in Thresholds : t_threshold' = threshold
    /\ t_accumulator' = TimerNew
    /\ t_call' = [NoCall EXCEPT !.op = "new"]
    /\ t_total' = 0
    /\ t_fired' = 0
    /\ UNCHANGED <<server_vars, client_vars, codec_vars>>

\* Timer::tick(dt).
TimerAdvance ==
    /\ t_threshold > 0
    /\ \E d \in 0..MaxDt :
        LET t == TimerTick(t_accumulator, d, t_threshold)
        IN  /\ t_total + d <= MaxTotal
            /\ t_accumulator' = t.accumulator
            /\ t_call' = [accumulator |-> t_accumulator, d |-> d, ret |-> t.fired, op |-> "tick"]
            /\ t_total' = t_total + d
            /\ t_fired' = IF t.fired THEN t_fired + 1 ELSE t_fired
    /\ UNCHANGED <<t_threshold, server_vars, client_vars, codec_vars>>

\* Timer::reset().
TimerClear ==
    /\ t_threshold > 0
    /\ t_accumulator' = TimerReset
    /\ t_call' = [NoCall EXCEPT !.op = "reset"]
    /\ t_total' = 0
    /\ t_fired' = 0
    /\ UNCHANGED <<t_threshold, server_vars, client_vars, codec_vars>>

TimerNext == TimerCreate \/ TimerAdvance \/ TimerClear

SpecTimer == Init /\ [][TimerNext]_vars

\* ---------------------------------------------------- the codec by itself
\* The values converted: ids of either sign and of several bytes, every kind,
\* floats given by their bits (0.0, 1.0, a NaN, -0.0).
CodecIds == {0, 1, 0 - 1, 258, 2147483647}
CodecFloats == {0, 1065353216, 2143289344, (0 - 2147483647) - 1}
Types == {"EntitySpawn", "EntityUpdate", "EntityDestroy"}

CodecValues ==
    {CodecValue("EntitySpawn", id, kind, f, g, g, f, f, g) :
        id \in CodecIds, kind \in KindBytes, f \in CodecFloats, g \in CodecFloats}
    \cup {CodecValue("EntityUpdate", id, 0, f, g, 0, 0, 0, 0) :
        id \in CodecIds, f \in CodecFloats, g \in CodecFloats}
    \cup {CodecValue("EntityDestroy", id, 0, 0, 0, 0, 0, 0, 0) : id \in CodecIds}

\* Payloads given to Packet::new, and the opcode bytes given with them.
NewPayloads ==
    {<<>>, <<0, 0, 0, 7>>, <<0, 0, 0, 7, 63, 128, 0, 0, 0, 0, 0, 0>>,
     IntoPacket(CodecValue("EntitySpawn", 7, 2, 1065353216, 0, 0, 1065353216, 0, 0)).data}
NewOpcodes == {Hello, Pong, EntitySpawn, EntityUpdate, EntityDestroy, 7, 255}

\* Datagrams as they arrive: of no byte at all, of the opcode byte alone, with
\* a payload cut short, and whole.
RawDatagrams ==
    {<<>>, <<Hello>>, <<EntitySpawn>>, <<EntitySpawn, 0, 0, 0, 7, 2>>,
     <<EntityUpdate, 0, 0, 0, 7>>, <<EntityDestroy>>, <<EntityDestroy, 0, 0>>}
    \cup {<<IntoPacket(x).opcode>> \o IntoPacket(x).data :
            x \in {v \in CodecValues : v.type # "EntitySpawn" /\ v.id \in {1, 258}}}

\* x.into(): a typed value becomes a Packet.
CodecInto ==
    /\ \E x \in CodecValues :
        /\ w_value' = x
        /\ w_packet' = IntoPacket(x)
    /\ w_raw' = [NoRaw EXCEPT !.origin = "into"]
    /\ w_result' = NoDecode
    /\ UNCHANGED <<server_vars, client_vars, timer_vars>>

\* Packet::new(op, data).
CodecNew ==
    /\ \E op \in NewOpcodes, data \in NewPayloads : w_packet' = WirePacket(op, data)
    /\ w_raw' = [NoRaw EXCEPT !.origin = "new"]
    /\ w_value' = NoValue
    /\ w_result' = NoDecode
    /\ UNCHANGED <<server_vars, client_vars, timer_vars>>

\* Packet::recv_from(socket).
CodecRecvFrom ==
    /\ \E bytes \in RawDatagrams :
        /\ w_raw' = [origin |-> "recv_from", res |-> RecvFrom(bytes).res, bytes |-> bytes]
        /\ w_packet' = RecvFrom(bytes).packet
    /\ w_value' = NoValue
    /\ w_result' = NoDecode
    /\ UNCHANGED <<server_vars, client_vars, timer_vars>>

\* T::try_from(packet) for one of the three types.
CodecTryFrom ==
    /\ w_raw.origin # "none"
    /\ \E type \in Types : w_result' = TryFrom(type, w_packet)
    /\ UNCHANGED <<w_raw, w_packet, w_value>>
    /\ UNCHANGED <<server_vars, client_vars, timer_vars>>

CodecNext == CodecInto \/ CodecNew \/ CodecRecvFrom \/ CodecTryFrom

SpecCodec == Init /\ [][CodecNext]_vars

\* ------------------------------------------------------------- properties
Replication == {EntitySpawn, EntityUpdate, EntityDestroy}

\* The frames of `out` a predicate selects, in order.
Frames(out, Test(_)) == SelectSeq(out, Test)

Broadcasts(out) == Frames(out, LAMBDA f : f.via = "broadcast")
To(out, a) == Frames(out, LAMBDA f : f.to = a)

LiveIds(es) == {es[i].id : i \in {j \in 1..Len(es) : es[j].e.alive}}

\* The last step handled a frame of one of `ops` taken from the channel.
Handled(ops) == last.op = "read" /\ last.p.op \in ops

\* C1: a player entity whose session the timeout sweep evicted is not live in
\* the store in any later state.
C1_EvictedPlayerDestroyed == \A id \in evicted_players : ~IsLive(entities, id)

\* C2: every EntitySpawn, EntityUpdate and EntityDestroy the server sends was
\* reflected by the store at the moment it was sent.
C2_ApplyThenRebroadcast ==
    \A i \in 1..Len(sent) : sent[i].p.op \in Replication => sent[i].ok

\* C3: the rebroadcast of an application frame from address A goes exactly once
\* to every registered address other than A, and never to A.
C3_BroadcastExclusion ==
    (Handled(Replication) /\ ~aborted) =>
        /\ \A a \in Addrs :
            Len(To(Broadcasts(sent), a)) = IF a \in DOMAIN clients /\ a # last.from THEN 1 ELSE 0
        /\ \A i \in 1..Len(sent) :
            sent[i].via = "broadcast" => sent[i].p.op = last.p.op /\ sent[i].to \in Addrs

C3_Witness ==
    /\ Handled(Replication)
    /\ ~aborted
    /\ DOMAIN clients = Addrs
    /\ Len(Broadcasts(sent)) = Cardinality(Addrs) - 1
    /\ ~last.joined

\* C4: the first frame from an address without a session creates the session
\* with a zero timer and sends that address one EntitySpawn per live entity of
\* the store, under the entity's id, ahead of anything else sent in that step;
\* and no replication frame ever goes to an address that has no session (so
\* nothing can precede the catch-up).
C4_LateJoinCatchUp ==
    /\ (last.op = "read" /\ last.joined) =>
        LET a == last.from
            n == Cardinality(last.live)
        IN  /\ a \in DOMAIN clients
            /\ clients[a] = 0
            /\ Len(To(sent, a)) = n
            /\ \A i \in 1..Len(sent) : sent[i].to = a <=> i <= n
            /\ \A i \in 1..n : sent[i].p.op = EntitySpawn /\ sent[i].via = "sync"
            /\ {sent[i].p.id : i \in 1..n} = last.live
            /\ \A i \in 1..n :
                /\ IsLive(entities, sent[i].p.id) \/ last.p.op = EntityDestroy
                /\ LET e == entities[Find(entities, sent[i].p.id)].e
                   IN  sent[i].p.kind = e.kind /\ sent[i].p.scale = e.scale
    /\ (last.op = "read" /\ ~last.joined) =>
        \A i \in 1..Len(sent) : sent[i].via # "sync"
    /\ \A i \in 1..Len(sent) :
        sent[i].p.op \in Replication => sent[i].to \in DOMAIN clients \cup last.purged

C4_Witness ==
    /\ last.op = "read"
    /\ last.joined
    /\ Cardinality(last.live) > NumTrees
    /\ \E i \in 1..Len(entities) : ~entities[i].e.alive /\ entities[i].id \notin last.live
    /\ Len(sent) > Cardinality(last.live)

\* C5: a session leaves the registry exactly in a tick in which the time since
\* it was created or last reset, advanced by that tick's dt, reaches TIMEOUT.
C5_EvictedIffTimedOut ==
    [][\A a \in DOMAIN clients :
          (a \notin DOMAIN clients') <=>
              (pc = "tick" /\ pc' = "ping" /\ since_reset[a] + dt' >= TIMEOUT)]_vars

C5_Witness ==
    /\ last.op = "tick"
    /\ last.purged # {}
    /\ \E a \in DOMAIN clients : since_reset[a] = TIMEOUT - 1

\* C6: a frame of any opcode from an address with a session leaves that
\* session's timer at zero.
C6_AnyFrameResetsTimer ==
    /\ replied.to \in DOMAIN clients => clients[replied.to] = 0
    /\ (last.op = "read" /\ last.from \in DOMAIN clients) => clients[last.from] = 0

\* C7: an EntityUpdate or EntityDestroy with id 0 is applied and rebroadcast
\* under the sender's player_entity_id; the server never applies or sends one
\* whose target id is 0.
C7_IdZeroResolved ==
    /\ 0 \notin last.targets
    /\ \A i \in 1..Len(sent) : sent[i].p.op \in {EntityUpdate, EntityDestroy} => sent[i].p.id # 0
    /\ (Handled({EntityUpdate, EntityDestroy}) /\ last.p.id = 0 /\ ~aborted) =>
        /\ last.from \in DOMAIN last.pids
        /\ last.targets = {last.pids[last.from]}
        /\ \A i \in 1..Len(sent) : sent[i].p.id = last.pids[last.from]

C7_Witness ==
    /\ Handled({EntityUpdate})
    /\ last.p.id = 0
    /\ ~aborted
    /\ Len(sent) > 0
    /\ last.targets = {NumTrees}

\* C8: after an EntityDestroy for id N has been sent, no EntitySpawn and no
\* EntityUpdate the server sends references N.
C8_NoReferenceAfterDestroy ==
    \A i \in 1..Len(sent) :
        sent[i].p.op \in {EntitySpawn, EntityUpdate} =>
            sent[i].p.id \notin destroyed_sent \cup DestroyIds(SubSeq(sent, 1, i - 1))

\* C9: an inbound EntitySpawn is stored under the next counter value, is
\* rebroadcast with that id whatever id it came with, and becomes the sender's
\* player_entity_id exactly when its kind is Player.
C9_SpawnHandling ==
    Handled({EntitySpawn}) =>
        LET id == last.counter
            a == last.from
            n == Len(entities)
        IN  /\ ~aborted
            /\ entity_counter = id + 1
            /\ n > 0
            /\ entities[n].id = id
            /\ entities[n].e = BaseEntity(last.p.pos, last.p.scale, last.p.speed, last.p.dir,
                                          last.p.kind)
            /\ \A i \in 1..Len(sent) :
                sent[i].via = "broadcast" =>
                    /\ sent[i].p.id = id
                    /\ sent[i].p.op = EntitySpawn
                    /\ sent[i].p.kind = last.p.kind
                    /\ sent[i].p.pos = last.p.pos
                    /\ sent[i].p.scale = last.p.scale
                    /\ sent[i].p.speed = last.p.speed
                    /\ sent[i].p.dir = last.p.dir
            /\ last.p.kind = "Player" =>
                /\ DOMAIN player_ids = DOMAIN last.pids \cup {a}
                /\ player_ids[a] = id
                /\ \A b \in DOMAIN last.pids \ {a} : player_ids[b] = last.pids[b]
            /\ last.p.kind # "Player" => player_ids = last.pids

C9_Witness ==
    /\ Handled({EntitySpawn})
    /\ last.p.kind # "Player"
    /\ last.p.id # 0
    /\ last.from \in DOMAIN player_ids
    /\ Len(Broadcasts(sent)) > 0

\* C10: the ids of the entity list are strictly increasing in the order they
\* were handed out and all lie below the counter, so no two entities, live or
\* dead, share an id.
C10_IdsIncreasing ==
    /\ \A i, j \in 1..Len(entities) : i < j => entities[i].id < entities[j].id
    /\ \A i \in 1..Len(entities) : entities[i].id < entity_counter

C10_Witness ==
    \E i, j \in 1..Len(entities) :
        /\ NumTrees < i
        /\ i < j
        /\ ~entities[i].e.alive
        /\ entities[j].e.alive

\* C11: a sweep that evicts the session owning player P removes the session
\* and sends EntityDestroy{P} exactly once to every session still registered
\* after the sweep and never to P's owner; the only other EntityDestroy frames
\* of the sweep are those of hunters, so a session without a player entity goes
\* without one.
C11_EvictionBroadcast ==
    last.op = "tick" =>
        LET owners == last.purged \cap DOMAIN last.pids
            Destroys(id, b) ==
                Frames(sent, LAMBDA f : f.p.op = EntityDestroy /\ f.p.id = id /\ f.to = b)
        IN  /\ DOMAIN clients \cap last.purged = {}
            /\ \A a \in owners :
                /\ \A b \in DOMAIN clients : Len(Destroys(last.pids[a], b)) = 1
                /\ Len(Destroys(last.pids[a], a)) = 0
                /\ \A b \in Addrs : Len(Destroys(last.pids[a], b)) <= 1
            /\ DestroyIds(sent) \subseteq {last.pids[a] : a \in owners} \cup last.targets
            /\ \A i \in 1..Len(sent) : sent[i].to \in Addrs

C11_Witness ==
    /\ last.op = "tick"
    /\ \E a \in last.purged \cap DOMAIN last.pids :
        \E b \in DOMAIN clients :
            \E i \in 1..Len(sent) :
                sent[i].to = b /\ sent[i].p.op = EntityDestroy /\ sent[i].p.id = last.pids[a]

\* C12: a session from which no further frame is processed is eventually
\* removed from the registry by the sweep alone, as long as the tick thread
\* runs and time passes (the budget of the model leaves room for the time the
\* session still has to wait); and the sweep itself never aborts the server.
Room(a) ==
    /\ ClientSpawns(entities, rx) + advances >= 1
    /\ MaxLiveGrowth - (ClientSpawns(entities, rx) + advances) >= TIMEOUT - since_reset[a]

C12_SilentSessionEvicted ==
    /\ \A a \in Addrs :
        (a \in DOMAIN clients /\ Room(a)) ~>
            (a \notin DOMAIN clients \/ (last.op = "read" /\ last.from = a) \/ aborted)
    /\ [][pc = "tick" => aborted' = aborted]_vars

C12_Witness ==
    /\ last.op = "tick"
    /\ dt = 1
    /\ last.purged # {}
    /\ DOMAIN clients # {}
    /\ ~aborted


\* ----------------------------------------------------- properties: client
\* The last call of Engine::tick handled a frame of opcode `op` to the end.
ClientHandled(op) == c_last.got /\ c_last.op = op /\ ~c_last.abort

\* The local entity of id `lid` in a list of the client's store.
Local(es, lid) == es[Slot(es, lid)]

\* C13: after the client has processed EntityDestroy{id=S}, the local entity
\* S mapped to is dead and the translation table has no entry for S.
C13_DestroyUnmaps ==
    ClientHandled(EntityDestroy) =>
        /\ ~Local(c_last.after, c_last.table[c_last.p.id]).e.alive
        /\ c_last.p.id \notin DOMAIN server_to_local_id

\* C14: an EntitySpawn{id=S} creates one local entity L and records S -> L; an
\* EntityUpdate{id=S} that follows sets the direction of L to the update
\* position minus the position of L, and changes no other local entity and
\* no entry of the translation table.
C14_UpdateTranslated ==
    /\ server_to_local_id = c_created
    /\ ClientHandled(EntitySpawn) =>
        /\ Len(c_last.after) = Len(c_last.before) + 1
        /\ SubSeq(c_last.after, 1, Len(c_last.before)) = c_last.before
        /\ c_last.after[Len(c_last.after)].id = c_created[c_last.p.id]
        /\ \A i \in 1..Len(c_last.before) : c_last.before[i].id # c_created[c_last.p.id]
        /\ \A s \in DOMAIN c_last.table \ {c_last.p.id} : c_created[s] = c_last.table[s]
    /\ ClientHandled(EntityUpdate) =>
        LET S == c_last.p.id
            L == c_created[S]
        IN  /\ S \in DOMAIN c_created
            /\ server_to_local_id = c_last.table
            /\ Len(c_last.after) = Len(c_last.before)
            /\ Cardinality({i \in 1..Len(c_last.before) : c_last.before[i].id = L}) = 1
            /\ \A i \in 1..Len(c_last.before) :
                c_last.after[i] =
                    IF c_last.before[i].id = L
                    THEN [c_last.before[i] EXCEPT !.e.dir = c_last.p.pos - c_last.before[i].e.pos]
                    ELSE c_last.before[i]

\* An update was translated while two server entities were known, and it
\* changed the entity it was for.
C14_Witness ==
    /\ ClientHandled(EntityUpdate)
    /\ Cardinality(DOMAIN c_last.table) = 2
    /\ c_last.after # c_last.before
    /\ c_created[c_last.p.id] # c_last.p.id

\* C15: a connected client that has taken nothing from the server for TIMEOUT
\* of tick time is in the TimedOut state.
C15_SilentClientTimesOut ==
    (c_state # "Disconnected" /\ c_silent >= TIMEOUT * Fine) => c_state = "TimedOut"

\* ----------------------------------------------- properties: client socket
\* The place in `ds` of the first datagram that is neither Ping nor Port;
\* 0 when there is none.
FirstOther(ds) ==
    LET others == {j \in 1..Len(ds) : ds[j].op \notin {Ping, Port}}
    IN  IF others = {} THEN 0 ELSE CHOOSE j \in others : \A x \in others : j <= x

\* The datagrams a call of recv reads and does not return.
Intercepted(ds) == IF FirstOther(ds) = 0 THEN Len(ds) ELSE FirstOther(ds) - 1

\* The port the socket talks to once the first i datagrams were read.
RemoteAt(ds, from, i) ==
    LET ports == {j \in 1..i : ds[j].op = Port}
    IN  IF ports = {} THEN from
        ELSE ds[CHOOSE j \in ports : \A x \in ports : x <= j].id

\* C16: connect sends one Hello and returns Ok exactly when the first frame
\* recv hands back is a Hello; another opcode gives BadOpcode, a read that
\* times out an io error, an address that resolves to nothing BadAddress;
\* a failure is fatal and no second Hello is ever sent.
C16_Handshake ==
    /\ c_hellos <= 1
    /\ c_recv.caller = "connect" =>
        LET ds == c_recv.ds
            k == FirstOther(ds)
            resolved == c_recv.address = "one"
        IN  /\ Hellos(c_recv.out) = IF resolved THEN 1 ELSE 0
            /\ resolved => c_recv.out[1] = COut(DefaultPort, NoData(Hello))
            /\ c_recv.result = "Ok" <=> (resolved /\ k > 0 /\ ds[k].op = Hello)
            /\ c_recv.result = "BadOpcode" <=> (resolved /\ k > 0 /\ ds[k].op # Hello)
            /\ c_recv.result = "IoError" <=> (c_recv.address = "error" \/ (resolved /\ k = 0))
            /\ c_recv.result = "BadAddress" <=> c_recv.address = "none"
            /\ c_state = "Connected" <=> c_recv.result = "Ok"
            /\ c_recv.result # "Ok" => c_pc = "exit"

\* connect succeeded on a Hello that came after a Ping and a Port.
C16_Witness ==
    /\ c_recv.caller = "connect"
    /\ c_recv.result = "Ok"
    /\ Len(c_recv.ds) = 3
    /\ c_recv.ds[1].op = Ping
    /\ c_recv.ds[2].op = Port

\* C19: a call of Client::recv answers every Ping it reads with one Pong,
\* sent to the port then in force, re-targets the socket to the port of every
\* Port it reads, and returns the first datagram that is neither; it never
\* returns a Ping or a Port.
C19_RecvIntercepts ==
    (c_recv.caller # "none" /\ c_recv.address = "one") =>
        LET ds == c_recv.ds
            k == FirstOther(ds)
            n == Intercepted(ds)
            pings == {j \in 1..n : ds[j].op = Ping}
            pongs == IF c_recv.caller = "connect" THEN Tail(c_recv.out) ELSE c_recv.out
            Nth(i) == CHOOSE j \in pings : Cardinality({x \in pings : x <= j}) = i
        IN  /\ Len(pongs) = Cardinality(pings)
            /\ \A i \in 1..Len(pongs) :
                pongs[i] = COut(RemoteAt(ds, c_recv.from, Nth(i)), NoData(Pong))
            /\ c_recv.remote = RemoteAt(ds, c_recv.from, n)
            /\ c_remote = c_recv.remote
            /\ k = 0 <=> c_recv.result = "IoError"
            /\ k > 0 => /\ c_recv.frame = ds[k]
                        /\ c_recv.frame.op \notin {Ping, Port}
            /\ (c_recv.caller = "recv_loop" /\ k > 0) =>
                /\ c_recv.result = "Ok"
                /\ c_pc # "exit" => (c_rx # <<>> /\ c_rx[Len(c_rx)] = ds[k])

\* The receive thread read a Port, then a Ping, then a frame it handed on.
C19_Witness ==
    /\ c_recv.caller = "recv_loop"
    /\ c_recv.result = "Ok"
    /\ Len(c_recv.ds) = 3
    /\ c_recv.ds[1].op = Port
    /\ c_recv.ds[2].op = Ping
    /\ c_recv.out = <<COut(c_recv.ds[1].id, NoData(Pong))>>
    /\ c_remote # c_recv.from

\* ----------------------------------------------- properties: server socket
\* C17: Server::recv hands only application frames to its caller: no Hello,
\* Port, Ping or Pong frame is on the channel to the tick thread or is
\* processed by read_packet_and_update_world.
C17_OnlyApplicationFramesQueued ==
    /\ \A i \in 1..Len(rx) : rx[i].op \in Replication
    /\ last.op = "read" => last.p.op \in Replication

\* C18: a session is created, and the catch-up sent, only on processing an
\* EntitySpawn, EntityUpdate or EntityDestroy from an unregistered address.
C18_SessionOnlyOnApplicationFrame ==
    (last.op = "read" /\ last.joined) => last.p.op \in Replication

\* ------------------------------------------------------- properties: timer
\* C20: Timer::tick(dt) returns true exactly when accumulator + dt reaches the
\* threshold and then keeps accumulator + dt - threshold; between resets the
\* timer has fired at most floor(total dt / threshold) times.
C20_TimerCarries ==
    /\ t_call.op = "tick" =>
        /\ t_call.ret <=> t_call.accumulator + t_call.d >= t_threshold
        /\ t_accumulator =
            t_call.accumulator + t_call.d - (IF t_call.ret THEN t_threshold ELSE 0)
    /\ t_threshold > 0 =>
        /\ t_fired <= t_total \div t_threshold
        /\ t_fired * t_threshold + t_accumulator = t_total

\* One tick crossed the threshold more than once: the timer fired and what it
\* carries would fire it again.
C20_Witness ==
    /\ t_call.op = "tick"
    /\ t_call.ret
    /\ t_accumulator >= t_threshold
    /\ t_fired >= 2

\* ------------------------------------------------------- properties: codec
\* C23: a value converted to a Packet and decoded by the TryFrom of its own
\* type comes back with every field the same; the payload is 29 bytes for an
\* EntitySpawn, 12 for an EntityUpdate and 4 for an EntityDestroy.
C23_RoundTrip ==
    /\ w_raw.origin = "into" =>
        /\ w_packet.opcode = OpOf(w_value.type)
        /\ Len(w_packet.data) = (CASE w_value.type = "EntitySpawn" -> 29
                                   [] w_value.type = "EntityUpdate" -> 12
                                   [] w_value.type = "EntityDestroy" -> 4)
        /\ \A i \in 1..Len(w_packet.data) : w_packet.data[i] \in 0..255
    /\ (w_raw.origin = "into" /\ w_result.type = w_value.type) =>
        /\ w_result.res = "Ok"
        /\ w_result.value = w_value

\* An EntitySpawn with a negative id and a NaN came back whole.
C23_Witness ==
    /\ w_raw.origin = "into"
    /\ w_result.type = "EntitySpawn"
    /\ w_result.res = "Ok"
    /\ w_result.value.id < 0
    /\ w_result.value.kind = 4
    /\ w_result.value.x = 2143289344
    /\ w_result.value.y < 0

\* C24: decoding a Packet as a type whose opcode it does not carry gives
\* BadOpcode and no value, whatever the payload.
C24_WrongOpcodeRejected ==
    (w_result.type # "none" /\ w_packet.opcode # OpOf(w_result.type)) =>
        /\ w_result.res = "BadOpcode"
        /\ w_result.value = NoValue

\* A whole EntitySpawn payload under the opcode of EntityUpdate was refused
\* as an EntitySpawn.
C24_Witness ==
    /\ w_raw.origin = "new"
    /\ w_result.type = "EntitySpawn"
    /\ w_packet.opcode = EntityUpdate
    /\ Len(w_packet.data) = 29
    /\ w_result.res = "BadOpcode"

\* C25: a received datagram whose payload is shorter than the width of the
\* type it is decoded as is rejected with NotEnoughData.
C25_ShortPayloadRejected ==
    (/\ w_raw.origin = "recv_from"
     /\ w_result.type # "none"
     /\ w_packet.opcode = OpOf(w_result.type)
     /\ Len(w_raw.bytes) - 1 < WidthOf(w_result.type)) =>
        w_result.res = "NotEnoughData"

\* C26: receiving a datagram of no bytes fails with NotEnoughData and makes
\* no frame.
C26_EmptyDatagramRejected ==
    (w_raw.origin = "recv_from" /\ w_raw.bytes = <<>>) => w_raw.res = "NotEnoughData"

\* ------------------------------------------------ properties: server threads
\* C21: recv_loop pushes exactly the frame and source Server::recv returned
\* and goes on; it passes over a ConnectionReset, pushing nothing; any other
\* error ends the receive thread.
C21_RecvLoopMatch ==
    /\ [][Len(rx') > Len(rx) => (r_last'.res = "Ok" /\ rx' = Append(rx, r_last'.d))]_vars
    /\ [][r_last' # r_last =>
            CASE r_last'.res = "Ok" -> rx' = Append(rx, r_last'.d) /\ recv_alive'
              [] r_last'.res = "ConnectionReset" -> rx' = rx /\ recv_alive'
              [] OTHER -> rx' = rx /\ ~recv_alive']_vars
    /\ [][(recv_alive /\ ~recv_alive') => (aborted \/ r_last'.res = "Other")]_vars

\* A ConnectionReset was passed over with a frame waiting in the channel, and
\* the receive thread is still running.
C21_Witness ==
    /\ r_last.res = "ConnectionReset"
    /\ recv_alive
    /\ Len(rx) = 1
    /\ ~aborted

\* C22: the tick thread polls the channel once per iteration and never waits
\* for it: with a frame queued it takes the oldest one and only that one,
\* without one it takes nothing, and either way the tick follows, also when
\* the receive thread has ended.
C22_TickNeverBlocks ==
    /\ [][(pc = "read" /\ pc' # pc) =>
            /\ pc' = "tick"
            /\ IF rx = <<>>
               THEN rx' = rx /\ last'.op = "idle"
               ELSE /\ rx' = Tail(rx)
                    /\ last'.op = "read"
                    /\ last'.p = Head(rx).p
                    /\ last'.from = Head(rx).from]_vars
    /\ [][pc # "read" => Len(rx') >= Len(rx)]_vars
    /\ []((pc = "read" /\ ~aborted) => ENABLED ReadPacket)
    /\ []((pc = "tick" /\ ~aborted) => ENABLED RecvTick)

\* The tick ran on an empty channel after the receive thread had ended.
C22_Witness ==
    /\ ~recv_alive
    /\ ~aborted
    /\ last.op = "tick"
    /\ rx = <<>>
    /\ r_last.res = "Other"

\* ------------------------------------------- properties: robustness, ownership
\* C27: a client that takes an EntityUpdate for a server id it has no table
\* entry for ignores it: no local entity and no table entry changes and the
\* client keeps running.
C27_UnknownUpdateIgnored ==
    (c_last.got /\ c_last.op = EntityUpdate /\ c_last.p.id \notin DOMAIN c_last.table) =>
        /\ ~c_last.abort
        /\ c_pc = "loop"
        /\ c_last.after = c_last.before
        /\ server_to_local_id = c_last.table

\* C28: whenever the server processes an EntityUpdate or EntityDestroy with
\* id 0, the sender has a player id recorded to resolve it with, and the
\* server does not abort.
C28_PlayerIdResolvable ==
    (last.op = "read" /\ last.p.op \in {EntityUpdate, EntityDestroy} /\ last.p.id = 0) =>
        /\ last.from \in DOMAIN last.pids
        /\ ~aborted

\* C29: no EntityDestroy sent by an eviction sweep goes to an address that the
\* same sweep evicts.
C29_NoDestroyToEvicted ==
    last.op = "tick" =>
        \A i \in 1..Len(sent) : sent[i].p.op = EntityDestroy => sent[i].to \notin last.purged

\* C30: every live Player entity of the store is the recorded player id of
\* exactly one registered session.
C30_PlayerOwned ==
    \A i \in 1..Len(entities) :
        (entities[i].e.alive /\ entities[i].e.kind = "Player") =>
            Cardinality({a \in DOMAIN clients \cap DOMAIN player_ids :
                            player_ids[a] = entities[i].id}) = 1

\* ------------------------------------------------------- registry consistency
\* An entry of player_ids the step wrote: the step read an EntitySpawn of kind
\* Player from that address and the entry is the id the store returned for it.
PlayerIdSpawned(a) ==
    /\ last'.op = "read"
    /\ last'.from = a
    /\ last'.p.op = EntitySpawn
    /\ last'.p.kind = "Player"
    /\ player_ids'[a] = entity_counter
    /\ entity_counter' = entity_counter + 1

\* Every owner is registered and owns a Player entity of the store.
OwnersRegistered ==
    \A a \in DOMAIN player_ids :
        /\ a \in DOMAIN clients
        /\ Find(entities, player_ids[a]) # 0
        /\ entities[Find(entities, player_ids[a])].e.kind = "Player"

\* C31: in every reachable server state every address with an entry in
\* player_ids also has a session in clients, and the id it maps to is the id
\* the store returned for a Player spawn read from that same address: each
\* step either keeps an entry or writes it while handling such a spawn.
C31_RegistryConsistent ==
    /\ []OwnersRegistered
    /\ [][\A a \in DOMAIN player_ids' :
                \/ a \in DOMAIN player_ids /\ player_ids'[a] = player_ids[a]
                \/ PlayerIdSpawned(a)]_vars

\* The sweep evicted an owner: its session and its player_ids entry are gone
\* together, after the entry was written for its Player spawn.
C31_Witness ==
    /\ last.op = "tick"
    /\ \E a \in last.purged :
        /\ a \in DOMAIN last.pids
        /\ a \notin DOMAIN player_ids
        /\ a \notin DOMAIN clients

\* ---------------------------------------------------- client table coverage
\* The server ids the translation table maps to the local id l.
ServerIdsOf(l) == {sid \in DOMAIN server_to_local_id : server_to_local_id[sid] = l}

\* C32: in every reachable client state every live local entity that a
\* received EntitySpawn created is the image of exactly one server id in the
\* translation table, also when an EntitySpawn for the same server id was
\* received more than once.
C32_TableCoverage ==
    \A l \in c_spawned :
        Local(c_ents, l).e.alive => Cardinality(ServerIdsOf(l)) = 1

\* ------------------------------------------------- the client's local channels
\* C33: the client tick never blocks on its local channels: every tick that
\* runs to its end sends exactly one key event, which Player::tick takes, and
\* receives exactly the one position Player::tick sent, so both channels are
\* empty at the start of each tick; the local player entity stays alive and is
\* the image of no server id, whatever frames were received, and the tick is
\* never left waiting on the position channel.
C33_TickNeverBlocks ==
    /\ c_pc # "blocked"
    /\ c_pc = "loop" =>
        /\ c_keys = 0
        /\ c_poss = 0
        /\ PlayerTicks(c_ents, player_id)
        /\ ServerIdsOf(player_id) = {}
    /\ (c_ticks > 0 /\ ~c_last.abort) =>
        /\ c_last.keys_sent = 1
        /\ c_last.keys_taken = 1
        /\ c_last.pos_sent = 1
        /\ c_last.pos_taken = 1

\* The tick handled an EntityDestroy whose server id is the number of the
\* local player's id, and the client goes on ticking.
C33_Witness ==
    /\ ClientHandled(EntityDestroy)
    /\ c_last.p.id = player_id
    /\ c_pc = "loop"
    /\ c_ticks > 1

\* --------------------------------------------------- EntityManager's index
\* The entity list holds id i at position i, and the counter is its length.
Indexed(es, counter) ==
    /\ counter = Len(es)
    /\ \A i \in 1..Len(es) : es[i].id = i - 1

\* EntityManager::get(id) for every id spawn has returned: the entity of that id.
GetReturnsOwn(es, counter) ==
    \A id \in 0..(counter - 1) : Find(es, id) # 0 /\ es[Slot(es, id)].id = id

\* C34: in every reachable state the entity stored at position i of the
\* entity list has id i, entities being appended and never removed, so get and
\* get_mut return the entity whose id was asked for, for every id spawn has
\* returned, live or dead; in the client's store and in the server's.
C34_IndexInvariant ==
    /\ Indexed(c_ents, c_counter)
    /\ GetReturnsOwn(c_ents, c_counter)
    /\ Indexed(entities, entity_counter)
    /\ GetReturnsOwn(entities, entity_counter)

\* A dead entity sits in the list with entities spawned after it, and get
\* still returns it.
C34_Witness ==
    \E i \in 1..Len(c_ents) :
        /\ ~c_ents[i].e.alive
        /\ i < Len(c_ents)
        /\ c_ents[Slot(c_ents, c_ents[i].id)] = c_ents[i]
====
